---- MODULE Spec2Model ----
(***************************************************************************)
(* A model of the emulator core: the picture unit's mode-timing state      *)
(* machine (Gpu.step), the memory unit (Mmu) and the CPU's fetch/dispatch  *)
(* loop (Cpu.cycle) with its operation table.                              *)
(***************************************************************************)
EXTENDS Integers, Sequences, FiniteSets, TLC

VARIABLES
    mode,       \* Gpu._mode
    modeclock,  \* Gpu._modeclock
    line,       \* Gpu._line
    calls,      \* the latest Gpu.step calls: state before, argument, what fired
    updateTileCalls, \* the Gpu.updateTile calls made: <<address, value>>
    r,          \* Cpu._r, the register set
    c,          \* Cpu._c, the cycle counter
    memory,     \* Mmu._memory: the cells written so far
    image,      \* Mmu._memory: the contents the run started with
    log         \* the Cpu.cycle calls made: registers before, opcode, outcome

vars == <<mode, modeclock, line, calls, updateTileCalls, r, c, memory, image,
         log>>
gpuVars == <<mode, modeclock, line, calls, updateTileCalls>>
cpuVars == <<r, c, memory, image, log>>

(***************************************************************************)
(* Bounds of the model.                                                    *)
(***************************************************************************)
\* how many of the latest Gpu.step calls are remembered
HistLen == 2
\* how many Cpu.cycle calls a run makes
MaxSteps == 2

(***************************************************************************)
(* JavaScript numbers, as far as the emulator uses them.  A register or a  *)
(* memory operand is an integer or, after a read outside the memory array, *)
(* `undefined`; arithmetic on that gives NaN.  Both behave alike wherever   *)
(* the emulator uses them (arithmetic gives NaN, a bitwise operator reads   *)
(* them as 0, a comparison with them is false, they index no array cell),  *)
(* and NaN stands for both.                                                *)
(***************************************************************************)
NaN == -999999

Plus(x, y) == IF x = NaN \/ y = NaN THEN NaN ELSE x + y
Minus(x, y) == IF x = NaN \/ y = NaN THEN NaN ELSE x - y
Gt(x, y) == x # NaN /\ y # NaN /\ x > y
Lt(x, y) == x # NaN /\ y # NaN /\ x < y

\* ToInt32 of the values that occur
ToInt32(x) == IF x = NaN THEN 0 ELSE x

RECURSIVE Pow2(_)
Pow2(n) == IF n = 0 THEN 1 ELSE 2 * Pow2(n - 1)

\* x & y for a mask y >= 0 (two's complement for a negative x)
RECURSIVE And(_, _)
And(x, y) ==
    IF ToInt32(y) = 0
    THEN 0
    ELSE (ToInt32(x) % 2) * (ToInt32(y) % 2)
           + 2 * And(ToInt32(x) \div 2, ToInt32(y) \div 2)

\* x | y for x, y >= 0
RECURSIVE Or(_, _)
Or(x, y) ==
    IF ToInt32(x) = 0 /\ ToInt32(y) = 0
    THEN 0
    ELSE (IF ToInt32(x) % 2 = 1 \/ ToInt32(y) % 2 = 1 THEN 1 ELSE 0)
           + 2 * Or(ToInt32(x) \div 2, ToInt32(y) \div 2)

\* x ^ y for x, y >= 0
RECURSIVE Xor(_, _)
Xor(x, y) ==
    IF ToInt32(x) = 0 /\ ToInt32(y) = 0
    THEN 0
    ELSE (IF ToInt32(x) % 2 # ToInt32(y) % 2 THEN 1 ELSE 0)
           + 2 * Xor(ToInt32(x) \div 2, ToInt32(y) \div 2)

\* ~x
Not(x) == - ToInt32(x) - 1

\* x << n for 0 <= x <= 255: the count is taken modulo 32 and the result is
\* a signed 32-bit integer
Shl(x, n) ==
    LET k == ToInt32(n) % 32
        keep == IF k > 24 THEN ToInt32(x) % Pow2(32 - k) ELSE ToInt32(x)
    IN  IF k = 0
        THEN ToInt32(x)
        ELSE IF k >= 24 /\ keep >= Pow2(31 - k)
             THEN (keep - Pow2(32 - k)) * Pow2(k - 1) * 2
             ELSE keep * Pow2(k - 1) * 2

\* x >> n, the sign kept
Shr(x, n) == ToInt32(x) \div Pow2(ToInt32(n) % 32)

(***************************************************************************)
(* The memory unit: a Uint8Array of 65536 cells.  A write stores the value *)
(* modulo 256 (NaN as 0), a read or write outside the array reads          *)
(* `undefined` or does nothing.  m holds the cells written, image the      *)
(* contents before the first write, two bytes repeated through the array.  *)
(***************************************************************************)
InArray(address) == address # NaN /\ address >= 0 /\ address < 65536

ToUint8(value) == IF value = NaN THEN 0 ELSE value % 256

rb(m, address) ==
    IF InArray(address)
    THEN IF address \in DOMAIN m
         THEN m[address]
         ELSE image[(address % Len(image)) + 1]
    ELSE NaN

rw(m, address) == Plus(rb(m, address), Shl(rb(m, address), 8))

wb(m, address, value) ==
    IF InArray(address)
    THEN [x \in DOMAIN m \cup {address} |->
             IF x = address THEN ToUint8(value) ELSE m[x]]
    ELSE m

ww(m, address, value) ==
    wb(wb(m, address, And(value, 255)), Plus(address, 1), Shr(value, 8))

(***************************************************************************)
(* The CPU.  An operation works on s = [r |-> the registers, m |-> the     *)
(* memory] and gives the two after it.                                     *)
(***************************************************************************)
Z == 128
N == 64
H == 32
C == 16

toSigned(v) ==
    IF v # NaN /\ v <= 127
    THEN v
    ELSE - And(Not(v) + 1, 255)

\* Resets flags after an operation, setting Z appropriately.
resetFlags(rs, result) ==
    IF And(result, 255) = 0
    THEN [rs EXCEPT !.f = Or(0, Z)]
    ELSE [rs EXCEPT !.f = 0]

\* add without its last line, r.a &= 255
add_unmasked(rs, value) ==
    LET sum == Plus(rs.a, value)
        r1 == resetFlags([rs EXCEPT !.a = sum], sum)
    IN  IF Gt(sum, 255) THEN [r1 EXCEPT !.f = Or(@, C)] ELSE r1

\* add with its carry test one off: r.a >= 255 for r.a > 255
add_carryFrom255(rs, value) ==
    LET sum == Plus(rs.a, value)
        r1 == resetFlags([rs EXCEPT !.a = sum], sum)
        r2 == IF ~ Lt(sum, 255) THEN [r1 EXCEPT !.f = Or(@, C)] ELSE r1
    IN  [r2 EXCEPT !.a = And(sum, 255)]

add(rs, value) ==
    LET sum == Plus(rs.a, value)
        r1 == resetFlags([rs EXCEPT !.a = sum], sum)
        r2 == IF Gt(sum, 255) THEN [r1 EXCEPT !.f = Or(@, C)] ELSE r1
    IN  [r2 EXCEPT !.a = And(sum, 255)]

\* sub with its borrow test one off: r.a <= 0 for r.a < 0
sub_borrowAtZero(rs, value) ==
    LET diff == Minus(rs.a, value)
        r1 == resetFlags([rs EXCEPT !.a = diff], diff)
        r2 == [r1 EXCEPT !.f = Or(@, N)]
        r3 == IF ~ Gt(diff, 0) THEN [r2 EXCEPT !.f = Or(@, C)] ELSE r2
    IN  [r3 EXCEPT !.a = And(diff, 255)]

sub(rs, value) ==
    LET diff == Minus(rs.a, value)
        r1 == resetFlags([rs EXCEPT !.a = diff], diff)
        r2 == [r1 EXCEPT !.f = Or(@, N)]
        r3 == IF Lt(diff, 0) THEN [r2 EXCEPT !.f = Or(@, C)] ELSE r2
    IN  [r3 EXCEPT !.a = And(diff, 255)]

\* and without its line r.f |= Flags.H
and_withoutH(rs, value) ==
    LET v == And(rs.a, value)
        r1 == resetFlags([rs EXCEPT !.a = v], v)
        r2 == IF Gt(v, 255) THEN [r1 EXCEPT !.f = Or(@, C)] ELSE r1
    IN  [r2 EXCEPT !.a = And(v, 255)]

and(rs, value) ==
    LET v == And(rs.a, value)
        r1 == resetFlags([rs EXCEPT !.a = v], v)
        r2 == IF Gt(v, 255) THEN [r1 EXCEPT !.f = Or(@, C)] ELSE r1
        r3 == [r2 EXCEPT !.f = Or(@, H)]
    IN  [r3 EXCEPT !.a = And(v, 255)]

or(rs, value) ==
    LET v == Or(rs.a, value)
    IN  [resetFlags(rs, v) EXCEPT !.a = And(v, 255)]

xor(rs, value) ==
    LET v == Xor(rs.a, value)
    IN  [resetFlags(rs, v) EXCEPT !.a = And(v, 255)]

\* cp keeping the difference in a, as sub does
cp_keepsResult(rs, value) ==
    LET v == Minus(rs.a, value)
        r1 == resetFlags(rs, v)
        r2 == [r1 EXCEPT !.f = Or(@, N)]
        r3 == IF Lt(v, 0) THEN [r2 EXCEPT !.f = Or(@, C)] ELSE r2
    IN  [r3 EXCEPT !.a = And(v, 255)]

cp(rs, value) ==
    LET v == Minus(rs.a, value)
        r1 == resetFlags(rs, v)
        r2 == [r1 EXCEPT !.f = Or(@, N)]
    IN  IF Lt(v, 0) THEN [r2 EXCEPT !.f = Or(@, C)] ELSE r2

inc(rs, key, max) ==
    LET v == And(Plus(rs[key], 1), max)
    IN  resetFlags([rs EXCEPT ![key] = v], v)

inc2(rs, key1, key2) ==
    LET v == And(Plus(rs[key2], 1), 255)
        r1 == [rs EXCEPT ![key2] = v]
    IN  IF v = 0
        THEN [r1 EXCEPT ![key1] = And(Plus(r1[key1], 1), 255)]
        ELSE r1

dec(rs, key, max) ==
    LET v == And(Minus(rs[key], 1), max)
    IN  resetFlags([rs EXCEPT ![key] = v], v)

dec2(rs, key1, key2) ==
    LET v == And(Minus(rs[key2], 1), 255)
        r1 == [rs EXCEPT ![key2] = v]
    IN  IF v = 0
        THEN [r1 EXCEPT ![key1] = And(Minus(r1[key1], 1), 255)]
        ELSE r1

\* hl is h << (8 + l + value); h and l stay as they are
addHl(rs, value) ==
    LET hl == Shl(rs.h, Plus(Plus(8, rs.l), value))
    IN  IF Gt(hl, 65535)
        THEN [rs EXCEPT !.f = Or(0, C)]
        ELSE [rs EXCEPT !.f = 0]

\* swap without the mask & 255
swap_unmasked(rs, key) ==
    LET v == Or(Shr(rs[key], 4), Shl(rs[key], 4))
    IN  resetFlags([rs EXCEPT ![key] = v], v)

swap(rs, key) ==
    LET v == And(Or(Shr(rs[key], 4), Shl(rs[key], 4)), 255)
    IN  resetFlags([rs EXCEPT ![key] = v], v)

\* r.hi << 8 + r.lo, which JavaScript reads as r.hi << (8 + r.lo)
Shifted(rs, hi, lo) == Shl(rs[hi], Plus(8, rs[lo]))

\* m.rb(r.pc++): the byte read, and the registers after it
Imm(s) == rb(s.m, s.r.pc)
Adv(s, n) == [s EXCEPT !.r.pc = @ + n]

\* (r.f & Flags.C ? 1 : 0)
Carry(rs) == IF And(rs.f, C) # 0 THEN 1 ELSE 0

LD_r_r(s, dst, src) == [s EXCEPT !.r[dst] = s.r[src]]

LD_r_M(s, dst, hi, lo) ==
    [s EXCEPT !.r[dst] = rb(s.m, Shifted(s.r, hi, lo))]

LD_r_nn(s, dst) == Adv([s EXCEPT !.r[dst] = rb(s.m, rw(s.m, s.r.pc))], 2)

LD_r_n(s, dst) == [Adv(s, 1) EXCEPT !.r[dst] = Imm(s)]

LD_M_r(s, hi, lo, src) ==
    [s EXCEPT !.m = wb(s.m, Shifted(s.r, hi, lo), s.r[src])]

LD_HL_n(s) == [Adv(s, 1) EXCEPT !.m = wb(s.m, Shifted(s.r, "h", "l"), Imm(s))]

LD_nn_A(s) == Adv([s EXCEPT !.m = wb(s.m, rw(s.m, s.r.pc), s.r.a)], 2)

LD_A_FFC(s) == [s EXCEPT !.r.a = rb(s.m, Plus(65280, s.r.c))]

LD_FFC_A(s) == [s EXCEPT !.m = wb(s.m, Plus(65280, s.r.c), s.r.a)]

LD_FFn_A(s) == [Adv(s, 1) EXCEPT !.m = wb(s.m, Plus(65280, Imm(s)), s.r.a)]

LD_A_FFn(s) == [Adv(s, 1) EXCEPT !.r.a = rb(s.m, Plus(65280, Imm(s)))]

LD_A_HLD(s) ==
    LET s1 == LD_r_M(s, "a", "h", "l")
        low == And(Minus(s1.r.l, 1), 255)
    IN  IF low = 255
        THEN [s1 EXCEPT !.r.l = low, !.r.h = And(Minus(s1.r.h, 1), 255)]
        ELSE [s1 EXCEPT !.r.l = low]

LD_HLD_A(s) ==
    LET s1 == LD_M_r(s, "h", "l", "a")
        low == And(Minus(s1.r.l, 1), 255)
    IN  IF low = 255
        THEN [s1 EXCEPT !.r.l = low, !.r.h = And(Minus(s1.r.h, 1), 255)]
        ELSE [s1 EXCEPT !.r.l = low]

\* LD_A_HLI without the carry of the low byte into h
LD_A_HLI_lowByteOnly(s) ==
    LET s1 == LD_r_M(s, "a", "h", "l")
    IN  [s1 EXCEPT !.r.l = And(Plus(s1.r.l, 1), 255)]

LD_A_HLI(s) ==
    LET s1 == LD_r_M(s, "a", "h", "l")
        low == And(Plus(s1.r.l, 1), 255)
    IN  IF low = 0
        THEN [s1 EXCEPT !.r.l = low, !.r.h = And(Plus(s1.r.h, 1), 255)]
        ELSE [s1 EXCEPT !.r.l = low]

LD_HLI_A(s) ==
    LET s1 == LD_M_r(s, "h", "l", "a")
        low == And(Plus(s1.r.l, 1), 255)
    IN  IF low = 0
        THEN [s1 EXCEPT !.r.l = low, !.r.h = And(Plus(s1.r.h, 1), 255)]
        ELSE [s1 EXCEPT !.r.l = low]

\* the byte at pc goes to lo, the next one to hi
LD_rr_nn(s, hi, lo) ==
    LET s1 == [Adv(s, 1) EXCEPT !.r[lo] = Imm(s)]
    IN  [Adv(s1, 1) EXCEPT !.r[hi] = Imm(s1)]

LD_SP_nn(s) == Adv([s EXCEPT !.r.sp = rw(s.m, s.r.pc)], 2)

LD_SP_HL(s) == [s EXCEPT !.r.sp = Or(Shl(rb(s.m, s.r.h), 8), rb(s.m, s.r.l))]

LD_HL_SPn(s) ==
    LET v == Plus(toSigned(Imm(s)), s.r.sp)
    IN  [Adv(s, 1) EXCEPT !.r.h = And(Shr(v, 8), 255), !.r.l = And(v, 255)]

LD_nn_SP(s) == Adv([s EXCEPT !.m = ww(s.m, rw(s.m, s.r.pc), s.r.sp)], 2)

\* hi goes to --sp, then lo to --sp
PUSH(s, hi, lo) ==
    LET sp1 == Minus(s.r.sp, 1)
        sp2 == Minus(sp1, 1)
    IN  [s EXCEPT !.m = wb(wb(s.m, sp1, s.r[hi]), sp2, s.r[lo]), !.r.sp = sp2]

\* POP reading the bytes in the order PUSH wrote them: hi first, then lo
POP_hiFirst(s, hi, lo) ==
    LET sp1 == Plus(s.r.sp, 1)
    IN  [s EXCEPT !.r[hi] = rb(s.m, s.r.sp),
                  !.r[lo] = rb(s.m, sp1),
                  !.r.sp = Plus(sp1, 1)]

\* lo comes from sp++, then hi from sp++
POP(s, hi, lo) ==
    LET sp1 == Plus(s.r.sp, 1)
    IN  [s EXCEPT !.r[lo] = rb(s.m, s.r.sp),
                  !.r[hi] = rb(s.m, sp1),
                  !.r.sp = Plus(sp1, 1)]

\* the function an operation names: add(..), sub(..), ...
Alu(fn, rs, value) ==
    CASE fn = "add" -> add(rs, value)
      [] fn = "sub" -> sub(rs, value)
      [] fn = "and" -> and(rs, value)
      [] fn = "or" -> or(rs, value)
      [] fn = "xor" -> xor(rs, value)
      [] fn = "cp" -> cp(rs, value)

\* inc(..) or dec(..), inc2(..) or dec2(..)
IncDec(fn, rs, key, max) ==
    CASE fn = "inc" -> inc(rs, key, max)
      [] fn = "dec" -> dec(rs, key, max)

IncDec2(fn, rs, key1, key2) ==
    CASE fn = "inc2" -> inc2(rs, key1, key2)
      [] fn = "dec2" -> dec2(rs, key1, key2)

\* the accumulator operations on a register, on the byte (HL) addresses, on
\* the byte after the opcode, and the same with the carry added
AluR(fn, s, src) == [s EXCEPT !.r = Alu(fn, s.r, s.r[src])]

AluHLM(fn, s) ==
    [s EXCEPT !.r = Alu(fn, s.r, rb(s.m, Shifted(s.r, "h", "l")))]

AluN(fn, s) == [s EXCEPT !.r = Alu(fn, Adv(s, 1).r, Imm(s))]

\* the carry left out of the operand
AluRC_withoutCarry(fn, s, src) == [s EXCEPT !.r = Alu(fn, s.r, s.r[src])]

AluRC(fn, s, src) ==
    [s EXCEPT !.r = Alu(fn, s.r, Plus(s.r[src], Carry(s.r)))]

AluHLMC(fn, s) ==
    [s EXCEPT !.r = Alu(fn, s.r, Plus(rb(s.m, Shifted(s.r, "h", "l")),
                                      Carry(s.r)))]

AluNC(fn, s) ==
    [s EXCEPT !.r = Alu(fn, Adv(s, 1).r, Plus(Imm(s), Carry(Adv(s, 1).r)))]

IncDecR(fn, s, key) == [s EXCEPT !.r = IncDec(fn, s.r, key, 255)]

IncDecSP(fn, s) == [s EXCEPT !.r = IncDec(fn, s.r, "sp", 65535)]

IncDecRR(fn, s, key1, key2) == [s EXCEPT !.r = IncDec2(fn, s.r, key1, key2)]

INC_HLM(s) ==
    LET i == Shifted(s.r, "h", "l")
        v == And(Plus(rb(s.m, i), 1), 255)
    IN  [s EXCEPT !.m = wb(s.m, i, v), !.r = resetFlags(s.r, v)]

DEC_HLM(s) ==
    LET i == Shifted(s.r, "h", "l")
        v == And(Minus(rb(s.m, i), 1), 255)
    IN  [s EXCEPT !.m = wb(s.m, i, v), !.r = resetFlags(s.r, v)]

ADD_HL_rr(s, hi, lo) == [s EXCEPT !.r = addHl(s.r, Shifted(s.r, hi, lo))]

ADD_HL_SP(s) == [s EXCEPT !.r = addHl(s.r, s.r.sp)]

ADD_SP_n(s) ==
    [Adv(s, 1) EXCEPT !.r.sp = Plus(s.r.sp, toSigned(Imm(s))), !.r.f = 0]

SWAP_r(s, key) == [s EXCEPT !.r = swap(s.r, key)]

SWAP_HLM(s) ==
    LET i == Shifted(s.r, "h", "l")
        hlm == rb(s.m, i)
        v == And(Or(Shr(hlm, 4), Shl(hlm, 4)), 255)
    IN  [s EXCEPT !.m = wb(s.m, i, v), !.r = resetFlags(s.r, v)]

\* an operation and its cost
createOp(s, cycles) == [r |-> s.r, m |-> s.m, cycles |-> cycles]

\* the table of operations (const o)
o(name, s) ==
    CASE name = "LD_A_A" -> createOp(LD_r_r(s, "a", "a"), 1)
      [] name = "LD_A_B" -> createOp(LD_r_r(s, "a", "b"), 1)
      [] name = "LD_A_C" -> createOp(LD_r_r(s, "a", "c"), 1)
      [] name = "LD_A_D" -> createOp(LD_r_r(s, "a", "d"), 1)
      [] name = "LD_A_E" -> createOp(LD_r_r(s, "a", "e"), 1)
      [] name = "LD_A_H" -> createOp(LD_r_r(s, "a", "h"), 1)
      [] name = "LD_A_L" -> createOp(LD_r_r(s, "a", "l"), 1)
      [] name = "LD_A_BC" -> createOp(LD_r_M(s, "a", "b", "c"), 2)
      [] name = "LD_A_DE" -> createOp(LD_r_M(s, "a", "d", "e"), 2)
      [] name = "LD_A_HL" -> createOp(LD_r_M(s, "a", "h", "l"), 2)
      [] name = "LD_A_nn" -> createOp(LD_r_nn(s, "a"), 4)
      [] name = "LD_A_n" -> createOp(LD_r_n(s, "a"), 2)
      [] name = "LD_B_A" -> createOp(LD_r_r(s, "b", "a"), 1)
      [] name = "LD_B_B" -> createOp(LD_r_r(s, "b", "b"), 1)
      [] name = "LD_B_C" -> createOp(LD_r_r(s, "b", "c"), 1)
      [] name = "LD_B_D" -> createOp(LD_r_r(s, "b", "d"), 1)
      [] name = "LD_B_E" -> createOp(LD_r_r(s, "b", "e"), 1)
      [] name = "LD_B_H" -> createOp(LD_r_r(s, "b", "h"), 1)
      [] name = "LD_B_L" -> createOp(LD_r_r(s, "b", "l"), 1)
      [] name = "LD_B_BC" -> createOp(LD_r_M(s, "b", "b", "c"), 2)
      [] name = "LD_B_DE" -> createOp(LD_r_M(s, "b", "d", "e"), 2)
      [] name = "LD_B_HL" -> createOp(LD_r_M(s, "b", "h", "l"), 2)
      [] name = "LD_B_nn" -> createOp(LD_r_nn(s, "b"), 4)
      [] name = "LD_B_n" -> createOp(LD_r_n(s, "b"), 2)
      [] name = "LD_C_A" -> createOp(LD_r_r(s, "c", "a"), 1)
      [] name = "LD_C_B" -> createOp(LD_r_r(s, "c", "b"), 1)
      [] name = "LD_C_C" -> createOp(LD_r_r(s, "c", "c"), 1)
      [] name = "LD_C_D" -> createOp(LD_r_r(s, "c", "d"), 1)
      [] name = "LD_C_E" -> createOp(LD_r_r(s, "c", "e"), 1)
      [] name = "LD_C_H" -> createOp(LD_r_r(s, "c", "h"), 1)
      [] name = "LD_C_L" -> createOp(LD_r_r(s, "c", "l"), 1)
      [] name = "LD_C_BC" -> createOp(LD_r_M(s, "c", "b", "c"), 2)
      [] name = "LD_C_DE" -> createOp(LD_r_M(s, "c", "d", "e"), 2)
      [] name = "LD_C_HL" -> createOp(LD_r_M(s, "c", "h", "l"), 2)
      [] name = "LD_C_nn" -> createOp(LD_r_nn(s, "c"), 4)
      [] name = "LD_C_n" -> createOp(LD_r_n(s, "c"), 2)
      [] name = "LD_D_A" -> createOp(LD_r_r(s, "d", "a"), 1)
      [] name = "LD_D_B" -> createOp(LD_r_r(s, "d", "b"), 1)
      [] name = "LD_D_C" -> createOp(LD_r_r(s, "d", "c"), 1)
      [] name = "LD_D_D" -> createOp(LD_r_r(s, "d", "d"), 1)
      [] name = "LD_D_E" -> createOp(LD_r_r(s, "d", "e"), 1)
      [] name = "LD_D_H" -> createOp(LD_r_r(s, "d", "h"), 1)
      [] name = "LD_D_L" -> createOp(LD_r_r(s, "d", "l"), 1)
      [] name = "LD_D_BC" -> createOp(LD_r_M(s, "d", "b", "c"), 2)
      [] name = "LD_D_DE" -> createOp(LD_r_M(s, "d", "d", "e"), 2)
      [] name = "LD_D_HL" -> createOp(LD_r_M(s, "d", "h", "l"), 2)
      [] name = "LD_D_nn" -> createOp(LD_r_nn(s, "d"), 4)
      [] name = "LD_D_n" -> createOp(LD_r_n(s, "d"), 2)
      [] name = "LD_E_A" -> createOp(LD_r_r(s, "e", "a"), 1)
      [] name = "LD_E_B" -> createOp(LD_r_r(s, "e", "b"), 1)
      [] name = "LD_E_C" -> createOp(LD_r_r(s, "e", "c"), 1)
      [] name = "LD_E_D" -> createOp(LD_r_r(s, "e", "d"), 1)
      [] name = "LD_E_E" -> createOp(LD_r_r(s, "e", "e"), 1)
      [] name = "LD_E_H" -> createOp(LD_r_r(s, "e", "h"), 1)
      [] name = "LD_E_L" -> createOp(LD_r_r(s, "e", "l"), 1)
      [] name = "LD_E_BC" -> createOp(LD_r_M(s, "e", "b", "c"), 2)
      [] name = "LD_E_DE" -> createOp(LD_r_M(s, "e", "d", "e"), 2)
      [] name = "LD_E_HL" -> createOp(LD_r_M(s, "e", "h", "l"), 2)
      [] name = "LD_E_nn" -> createOp(LD_r_nn(s, "e"), 4)
      [] name = "LD_E_n" -> createOp(LD_r_n(s, "e"), 2)
      [] name = "LD_H_A" -> createOp(LD_r_r(s, "h", "a"), 1)
      [] name = "LD_H_B" -> createOp(LD_r_r(s, "h", "b"), 1)
      [] name = "LD_H_C" -> createOp(LD_r_r(s, "h", "c"), 1)
      [] name = "LD_H_D" -> createOp(LD_r_r(s, "h", "d"), 1)
      [] name = "LD_H_E" -> createOp(LD_r_r(s, "h", "e"), 1)
      [] name = "LD_H_H" -> createOp(LD_r_r(s, "h", "h"), 1)
      [] name = "LD_H_L" -> createOp(LD_r_r(s, "h", "l"), 1)
      [] name = "LD_H_BC" -> createOp(LD_r_M(s, "h", "b", "c"), 2)
      [] name = "LD_H_DE" -> createOp(LD_r_M(s, "h", "d", "e"), 2)
      [] name = "LD_H_HL" -> createOp(LD_r_M(s, "h", "h", "l"), 2)
      [] name = "LD_H_nn" -> createOp(LD_r_nn(s, "h"), 4)
      [] name = "LD_H_n" -> createOp(LD_r_n(s, "h"), 2)
      [] name = "LD_L_A" -> createOp(LD_r_r(s, "l", "a"), 1)
      [] name = "LD_L_B" -> createOp(LD_r_r(s, "l", "b"), 1)
      [] name = "LD_L_C" -> createOp(LD_r_r(s, "l", "c"), 1)
      [] name = "LD_L_D" -> createOp(LD_r_r(s, "l", "d"), 1)
      [] name = "LD_L_E" -> createOp(LD_r_r(s, "l", "e"), 1)
      [] name = "LD_L_H" -> createOp(LD_r_r(s, "l", "h"), 1)
      [] name = "LD_L_L" -> createOp(LD_r_r(s, "l", "l"), 1)
      [] name = "LD_L_BC" -> createOp(LD_r_M(s, "l", "b", "c"), 2)
      [] name = "LD_L_DE" -> createOp(LD_r_M(s, "l", "d", "e"), 2)
      [] name = "LD_L_HL" -> createOp(LD_r_M(s, "l", "h", "l"), 2)
      [] name = "LD_L_nn" -> createOp(LD_r_nn(s, "l"), 4)
      [] name = "LD_L_n" -> createOp(LD_r_n(s, "l"), 2)
      [] name = "LD_HL_B" -> createOp(LD_M_r(s, "h", "l", "b"), 2)
      [] name = "LD_HL_C" -> createOp(LD_M_r(s, "h", "l", "c"), 2)
      [] name = "LD_HL_D" -> createOp(LD_M_r(s, "h", "l", "d"), 2)
      [] name = "LD_HL_E" -> createOp(LD_M_r(s, "h", "l", "e"), 2)
      [] name = "LD_HL_H" -> createOp(LD_M_r(s, "h", "l", "h"), 2)
      [] name = "LD_HL_L" -> createOp(LD_M_r(s, "h", "l", "l"), 2)
      [] name = "LD_HL_n" -> createOp(LD_HL_n(s), 3)
      [] name = "LD_BC_A" -> createOp(LD_M_r(s, "b", "c", "a"), 2)
      [] name = "LD_DE_A" -> createOp(LD_M_r(s, "d", "e", "a"), 2)
      [] name = "LD_HL_A" -> createOp(LD_M_r(s, "h", "l", "a"), 2)
      [] name = "LD_nn_A" -> createOp(LD_nn_A(s), 4)
      [] name = "LD_A_FFC" -> createOp(LD_A_FFC(s), 2)
      [] name = "LD_FFC_A" -> createOp(LD_FFC_A(s), 2)
      [] name = "LD_A_HLD" -> createOp(LD_A_HLD(s), 2)
      [] name = "LD_HLD_A" -> createOp(LD_HLD_A(s), 2)
      [] name = "LD_A_HLI" -> createOp(LD_A_HLI(s), 2)
      [] name = "LD_HLI_A" -> createOp(LD_HLI_A(s), 2)
      [] name = "LD_FFn_A" -> createOp(LD_FFn_A(s), 3)
      [] name = "LD_A_FFn" -> createOp(LD_A_FFn(s), 3)
      [] name = "LD_BC_nn" -> createOp(LD_rr_nn(s, "b", "c"), 3)
      [] name = "LD_DE_nn" -> createOp(LD_rr_nn(s, "d", "e"), 3)
      [] name = "LD_HL_nn" -> createOp(LD_rr_nn(s, "h", "l"), 3)
      [] name = "LD_SP_nn" -> createOp(LD_SP_nn(s), 3)
      [] name = "LD_SP_HL" -> createOp(LD_SP_HL(s), 2)
      [] name = "LD_HL_SPn" -> createOp(LD_HL_SPn(s), 3)
      [] name = "LD_nn_SP" -> createOp(LD_nn_SP(s), 5)
      [] name = "PUSH_AF" -> createOp(PUSH(s, "a", "f"), 4)
      [] name = "PUSH_BC" -> createOp(PUSH(s, "b", "c"), 4)
      [] name = "PUSH_DE" -> createOp(PUSH(s, "d", "e"), 4)
      [] name = "PUSH_HL" -> createOp(PUSH(s, "h", "l"), 4)
      [] name = "POP_AF" -> createOp(POP(s, "a", "f"), 3)
      [] name = "POP_BC" -> createOp(POP(s, "b", "c"), 3)
      [] name = "POP_DE" -> createOp(POP(s, "d", "e"), 3)
      [] name = "POP_HL" -> createOp(POP(s, "h", "l"), 3)
      [] name = "ADD_A" -> createOp(AluR("add", s, "a"), 1)
      [] name = "ADD_B" -> createOp(AluR("add", s, "b"), 1)
      [] name = "ADD_C" -> createOp(AluR("add", s, "c"), 1)
      [] name = "ADD_D" -> createOp(AluR("add", s, "d"), 1)
      [] name = "ADD_E" -> createOp(AluR("add", s, "e"), 1)
      [] name = "ADD_H" -> createOp(AluR("add", s, "h"), 1)
      [] name = "ADD_L" -> createOp(AluR("add", s, "l"), 1)
      [] name = "ADD_HLM" -> createOp(AluHLM("add", s), 2)
      [] name = "ADD_n" -> createOp(AluN("add", s), 2)
      [] name = "ADC_A" -> createOp(AluRC("add", s, "a"), 1)
      [] name = "ADC_B" -> createOp(AluRC("add", s, "b"), 1)
      [] name = "ADC_C" -> createOp(AluRC("add", s, "c"), 1)
      [] name = "ADC_D" -> createOp(AluRC("add", s, "d"), 1)
      [] name = "ADC_E" -> createOp(AluRC("add", s, "e"), 1)
      [] name = "ADC_H" -> createOp(AluRC("add", s, "h"), 1)
      [] name = "ADC_L" -> createOp(AluRC("add", s, "l"), 1)
      [] name = "ADC_HLM" -> createOp(AluHLMC("add", s), 2)
      [] name = "ADC_n" -> createOp(AluNC("add", s), 2)
      [] name = "SUB_A" -> createOp(AluR("sub", s, "a"), 1)
      [] name = "SUB_B" -> createOp(AluR("sub", s, "b"), 1)
      [] name = "SUB_C" -> createOp(AluR("sub", s, "c"), 1)
      [] name = "SUB_D" -> createOp(AluR("sub", s, "d"), 1)
      [] name = "SUB_E" -> createOp(AluR("sub", s, "e"), 1)
      [] name = "SUB_H" -> createOp(AluR("sub", s, "h"), 1)
      [] name = "SUB_L" -> createOp(AluR("sub", s, "l"), 1)
      [] name = "SUB_HLM" -> createOp(AluHLM("sub", s), 2)
      [] name = "SUB_n" -> createOp(AluN("sub", s), 2)
      [] name = "SBC_A" -> createOp(AluRC("sub", s, "a"), 1)
      [] name = "SBC_B" -> createOp(AluRC("sub", s, "b"), 1)
      [] name = "SBC_C" -> createOp(AluRC("sub", s, "c"), 1)
      [] name = "SBC_D" -> createOp(AluRC("sub", s, "d"), 1)
      [] name = "SBC_E" -> createOp(AluRC("sub", s, "e"), 1)
      [] name = "SBC_H" -> createOp(AluRC("sub", s, "h"), 1)
      [] name = "SBC_L" -> createOp(AluRC("sub", s, "l"), 1)
      [] name = "SBC_HLM" -> createOp(AluHLMC("sub", s), 2)
      [] name = "AND_A" -> createOp(AluR("and", s, "a"), 1)
      [] name = "AND_B" -> createOp(AluR("and", s, "b"), 1)
      [] name = "AND_C" -> createOp(AluR("and", s, "c"), 1)
      [] name = "AND_D" -> createOp(AluR("and", s, "d"), 1)
      [] name = "AND_E" -> createOp(AluR("and", s, "e"), 1)
      [] name = "AND_H" -> createOp(AluR("and", s, "h"), 1)
      [] name = "AND_L" -> createOp(AluR("and", s, "l"), 1)
      [] name = "AND_HLM" -> createOp(AluHLM("and", s), 2)
      [] name = "AND_n" -> createOp(AluN("and", s), 2)
      [] name = "OR_A" -> createOp(AluR("or", s, "a"), 1)
      [] name = "OR_B" -> createOp(AluR("or", s, "b"), 1)
      [] name = "OR_C" -> createOp(AluR("or", s, "c"), 1)
      [] name = "OR_D" -> createOp(AluR("or", s, "d"), 1)
      [] name = "OR_E" -> createOp(AluR("or", s, "e"), 1)
      [] name = "OR_H" -> createOp(AluR("or", s, "h"), 1)
      [] name = "OR_L" -> createOp(AluR("or", s, "l"), 1)
      [] name = "OR_HLM" -> createOp(AluHLM("or", s), 2)
      [] name = "OR_n" -> createOp(AluN("or", s), 2)
      [] name = "XOR_A" -> createOp(AluR("xor", s, "a"), 1)
      [] name = "XOR_B" -> createOp(AluR("xor", s, "b"), 1)
      [] name = "XOR_C" -> createOp(AluR("xor", s, "c"), 1)
      [] name = "XOR_D" -> createOp(AluR("xor", s, "d"), 1)
      [] name = "XOR_E" -> createOp(AluR("xor", s, "e"), 1)
      [] name = "XOR_H" -> createOp(AluR("xor", s, "h"), 1)
      [] name = "XOR_L" -> createOp(AluR("xor", s, "l"), 1)
      [] name = "XOR_HLM" -> createOp(AluHLM("xor", s), 2)
      [] name = "XOR_n" -> createOp(AluN("xor", s), 2)
      [] name = "CP_A" -> createOp(AluR("cp", s, "a"), 1)
      [] name = "CP_B" -> createOp(AluR("cp", s, "b"), 1)
      [] name = "CP_C" -> createOp(AluR("cp", s, "c"), 1)
      [] name = "CP_D" -> createOp(AluR("cp", s, "d"), 1)
      [] name = "CP_E" -> createOp(AluR("cp", s, "e"), 1)
      [] name = "CP_H" -> createOp(AluR("cp", s, "h"), 1)
      [] name = "CP_L" -> createOp(AluR("cp", s, "l"), 1)
      [] name = "CP_HLM" -> createOp(AluHLM("cp", s), 2)
      [] name = "CP_n" -> createOp(AluN("cp", s), 2)
      [] name = "INC_A" -> createOp(IncDecR("inc", s, "a"), 1)
      [] name = "INC_B" -> createOp(IncDecR("inc", s, "b"), 1)
      [] name = "INC_C" -> createOp(IncDecR("inc", s, "c"), 1)
      [] name = "INC_D" -> createOp(IncDecR("inc", s, "d"), 1)
      [] name = "INC_E" -> createOp(IncDecR("inc", s, "e"), 1)
      [] name = "INC_H" -> createOp(IncDecR("inc", s, "h"), 1)
      [] name = "INC_L" -> createOp(IncDecR("inc", s, "l"), 1)
      [] name = "INC_HLM" -> createOp(INC_HLM(s), 3)
      [] name = "DEC_A" -> createOp(IncDecR("dec", s, "a"), 1)
      [] name = "DEC_B" -> createOp(IncDecR("dec", s, "b"), 1)
      [] name = "DEC_C" -> createOp(IncDecR("dec", s, "c"), 1)
      [] name = "DEC_D" -> createOp(IncDecR("dec", s, "d"), 1)
      [] name = "DEC_E" -> createOp(IncDecR("dec", s, "e"), 1)
      [] name = "DEC_H" -> createOp(IncDecR("dec", s, "h"), 1)
      [] name = "DEC_L" -> createOp(IncDecR("dec", s, "l"), 1)
      [] name = "DEC_HLM" -> createOp(DEC_HLM(s), 3)
      [] name = "ADD_HL_BC" -> createOp(ADD_HL_rr(s, "b", "c"), 2)
      [] name = "ADD_HL_DE" -> createOp(ADD_HL_rr(s, "d", "e"), 2)
      [] name = "ADD_HL_HL" -> createOp(ADD_HL_rr(s, "h", "l"), 2)
      [] name = "ADD_HL_SP" -> createOp(ADD_HL_SP(s), 2)
      [] name = "ADD_SP_n" -> createOp(ADD_SP_n(s), 4)
      [] name = "INC_BC" -> createOp(IncDecRR("inc2", s, "b", "c"), 2)
      [] name = "INC_DE" -> createOp(IncDecRR("inc2", s, "d", "e"), 2)
      [] name = "INC_HL" -> createOp(IncDecRR("inc2", s, "h", "l"), 2)
      [] name = "INC_SP" -> createOp(IncDecSP("inc", s), 2)
      [] name = "DEC_BC" -> createOp(IncDecRR("dec2", s, "b", "c"), 2)
      [] name = "DEC_DE" -> createOp(IncDecRR("dec2", s, "d", "e"), 2)
      [] name = "DEC_HL" -> createOp(IncDecRR("dec2", s, "h", "l"), 2)
      [] name = "DEC_SP" -> createOp(IncDecSP("dec", s), 2)
      [] name = "SWAP_A" -> createOp(SWAP_r(s, "a"), 2)
      [] name = "SWAP_B" -> createOp(SWAP_r(s, "b"), 2)
      [] name = "SWAP_C" -> createOp(SWAP_r(s, "c"), 2)
      [] name = "SWAP_D" -> createOp(SWAP_r(s, "d"), 2)
      [] name = "SWAP_E" -> createOp(SWAP_r(s, "e"), 2)
      [] name = "SWAP_H" -> createOp(SWAP_r(s, "h"), 2)
      [] name = "SWAP_L" -> createOp(SWAP_r(s, "l"), 2)
      [] name = "SWAP_HLM" -> createOp(SWAP_HLM(s), 4)
      [] name = "NOP" -> createOp(s, 1)

\* the opcode tables
oMap == <<
    "NOP", "LD_BC_nn", "LD_BC_A", "INC_BC",
    "INC_B", "DEC_B", "LD_B_n", "undefined",
    "LD_nn_SP", "ADD_HL_BC", "LD_A_BC", "DEC_BC",
    "INC_C", "DEC_C", "LD_C_n", "undefined",
    "undefined", "LD_DE_nn", "LD_DE_A", "INC_DE",
    "INC_D", "DEC_D", "LD_D_n", "undefined",
    "undefined", "ADD_HL_DE", "LD_A_DE", "DEC_DE",
    "INC_E", "DEC_E", "LD_E_n", "undefined",
    "undefined", "LD_HL_nn", "LD_HLI_A", "INC_HLM",
    "INC_H", "DEC_H", "LD_H_n", "undefined",
    "undefined", "ADD_HL_HL", "LD_A_HLI", "DEC_HL",
    "INC_L", "DEC_L", "LD_L_n", "undefined",
    "undefined", "LD_SP_nn", "LD_HLD_A", "INC_SP",
    "INC_HL", "DEC_HLM", "LD_HL_n", "undefined",
    "undefined", "ADD_HL_SP", "LD_A_HLD", "DEC_SP",
    "INC_A", "DEC_A", "LD_A_n", "undefined",
    "LD_B_B", "LD_B_C", "LD_B_D", "LD_B_E",
    "LD_B_H", "LD_B_L", "LD_B_HL", "LD_B_A",
    "LD_C_B", "LD_C_C", "LD_C_D", "LD_C_E",
    "LD_C_H", "LD_C_L", "LD_C_HL", "LD_C_A",
    "LD_D_B", "LD_D_C", "LD_D_D", "LD_D_E",
    "LD_D_H", "LD_D_L", "LD_D_HL", "LD_D_A",
    "LD_E_B", "LD_E_C", "LD_E_D", "LD_E_E",
    "LD_E_H", "LD_E_L", "LD_E_HL", "LD_E_A",
    "LD_H_B", "LD_H_C", "LD_H_D", "LD_H_E",
    "LD_H_H", "LD_H_L", "LD_H_HL", "LD_H_A",
    "LD_L_B", "LD_L_C", "LD_L_D", "LD_L_E",
    "LD_L_H", "LD_L_L", "LD_L_HL", "LD_L_A",
    "LD_HL_B", "LD_HL_C", "LD_HL_D", "LD_HL_E",
    "LD_HL_H", "LD_HL_L", "LD_HL_A", "undefined",
    "LD_A_B", "LD_A_C", "LD_A_D", "LD_A_E",
    "LD_A_H", "LD_A_L", "LD_A_HL", "LD_A_A",
    "ADD_B", "ADD_C", "ADD_D", "ADD_E",
    "ADD_H", "ADD_L", "ADD_HLM", "ADD_A",
    "ADC_B", "ADC_C", "ADC_D", "ADC_E",
    "ADC_H", "ADC_L", "ADC_HLM", "ADC_A",
    "SUB_B", "SUB_C", "SUB_D", "SUB_E",
    "SUB_H", "SUB_L", "SUB_HLM", "SUB_A",
    "SBC_B", "SBC_C", "SBC_D", "SBC_E",
    "SBC_H", "SBC_L", "SBC_HLM", "SBC_A",
    "AND_B", "AND_C", "AND_D", "AND_E",
    "AND_H", "AND_L", "AND_HLM", "AND_A",
    "XOR_B", "XOR_C", "XOR_D", "XOR_E",
    "XOR_H", "XOR_L", "XOR_HLM", "XOR_A",
    "OR_B", "OR_C", "OR_D", "OR_E",
    "OR_H", "OR_L", "OR_HLM", "OR_A",
    "CP_B", "CP_C", "CP_D", "CP_E",
    "CP_H", "CP_L", "CP_HLM", "CP_A",
    "undefined", "POP_BC", "undefined", "undefined",
    "undefined", "PUSH_BC", "ADD_n", "undefined",
    "undefined", "undefined", "undefined", "undefined",
    "undefined", "undefined", "ADC_n", "undefined",
    "undefined", "POP_DE", "undefined", "undefined",
    "undefined", "PUSH_DE", "SUB_n", "undefined",
    "undefined", "undefined", "undefined", "undefined",
    "undefined", "undefined", "undefined", "undefined",
    "LD_FFn_A", "POP_HL", "LD_FFC_A", "undefined",
    "undefined", "PUSH_HL", "AND_n", "undefined",
    "ADD_SP_n", "undefined", "LD_nn_A", "undefined",
    "undefined", "undefined", "XOR_n", "undefined",
    "LD_A_FFn", "POP_AF", "LD_A_FFC", "undefined",
    "undefined", "PUSH_AF", "OR_n", "undefined",
    "LD_HL_SPn", "LD_SP_HL", "LD_A_nn", "undefined",
    "undefined", "undefined", "undefined", "undefined"
>>

oCbMap == <<
    "undefined", "undefined", "undefined", "undefined",
    "undefined", "undefined", "undefined", "undefined",
    "undefined", "undefined", "undefined", "undefined",
    "undefined", "undefined", "undefined", "undefined",
    "undefined", "undefined", "undefined", "undefined",
    "undefined", "undefined", "undefined", "undefined",
    "undefined", "undefined", "undefined", "undefined",
    "undefined", "undefined", "undefined", "undefined",
    "undefined", "undefined", "undefined", "undefined",
    "undefined", "undefined", "undefined", "undefined",
    "undefined", "undefined", "undefined", "undefined",
    "undefined", "undefined", "undefined", "undefined",
    "SWAP_B", "SWAP_C", "SWAP_D", "SWAP_E",
    "SWAP_H", "SWAP_L", "SWAP_HLM", "SWAP_A",
    "undefined", "undefined", "undefined", "undefined",
    "undefined", "undefined", "undefined", "undefined",
    "undefined", "undefined", "undefined", "undefined",
    "undefined", "undefined", "undefined", "undefined",
    "undefined", "undefined", "undefined", "undefined",
    "undefined", "undefined", "undefined", "undefined",
    "undefined", "undefined", "undefined", "undefined",
    "undefined", "undefined", "undefined", "undefined",
    "undefined", "undefined", "undefined", "undefined",
    "undefined", "undefined", "undefined", "undefined",
    "undefined", "undefined", "undefined", "undefined",
    "undefined", "undefined", "undefined", "undefined",
    "undefined", "undefined", "undefined", "undefined",
    "undefined", "undefined", "undefined", "undefined",
    "undefined", "undefined", "undefined", "undefined",
    "undefined", "undefined", "undefined", "undefined",
    "undefined", "undefined", "undefined", "undefined",
    "undefined", "undefined", "undefined", "undefined"
>>

\* Number.toString(16): the hexadecimal digits, without leading zeros
toString16(n) == IF n < 16 THEN <<n>> ELSE <<n \div 16, n % 16>>

\* oMap[opcode]
Lookup(opcode) == IF opcode = NaN THEN "undefined" ELSE oMap[opcode + 1]

\* one call of Cpu.cycle: the opcode at pc is fetched and pc incremented;
\* the operation runs and its cost is added to the counter, or, there being
\* none, an Error is thrown whose message holds the opcode in hexadecimal
\* (a TypeError when the opcode itself is undefined).  The method has no
\* return statement: a call that returns evaluates to undefined.  The
\* operations write through Mmu.wb, which holds no Gpu and calls none.
cycle ==
    /\ Len(log) < MaxSteps
    /\ LET opcode == rb(memory, r.pc)
           r1 == [r EXCEPT !.pc = @ + 1]
           op == Lookup(opcode)
           entry == [r |-> r, c |-> c, m |-> memory, opcode |-> opcode,
                     returned |-> NaN]
       IN  IF op # "undefined"
           THEN LET t == o(op, [r |-> r1, m |-> memory])
                IN  /\ r' = t.r
                    /\ memory' = t.m
                    /\ c' = c + t.cycles
                    /\ log' = Append(log, entry @@ [threw |-> FALSE,
                                                    error |-> <<>>])
           ELSE /\ r' = r1
                /\ UNCHANGED <<memory, c>>
                /\ log' = Append(log, entry @@
                            [threw |-> TRUE,
                             error |-> IF opcode = NaN
                                       THEN <<>>
                                       ELSE toString16(opcode)])
    /\ UNCHANGED <<image, gpuVars>>

(***************************************************************************)
(* The picture unit.                                                       *)
(***************************************************************************)
HBlank == 0
VBlank == 1
OamRead == 2
VramRead == 3

\* the cycle arguments handed to Gpu.step: the four mode lengths, one line
\* (80 + 172 + 204), a length that overshoots the shortest mode by 12, and a
\* whole frame
StepCycles == {80, 92, 172, 204, 456, 70224}

GpuState == [mode |-> mode, modeclock |-> modeclock, line |-> line]

\* Gpu.step without this._modeclock = 0 in its HBlank branch
step_hblankKeepsClock(s, cycles) ==
    LET clock == s.modeclock + cycles
        same == [mode |-> s.mode, modeclock |-> clock, line |-> s.line,
                 scan |-> 0, frame |-> 0]
    IN  CASE s.mode = OamRead ->
               IF clock >= 80
               THEN [same EXCEPT !.modeclock = 0, !.mode = VramRead]
               ELSE same
          [] s.mode = VramRead ->
               IF clock >= 172
               THEN [same EXCEPT !.modeclock = 0, !.mode = HBlank, !.scan = 1]
               ELSE same
          [] s.mode = HBlank ->
               IF clock >= 204
               THEN IF s.line + 1 = 143
                    THEN [same EXCEPT !.line = s.line + 1,
                                      !.mode = VBlank, !.frame = 1]
                    ELSE [same EXCEPT !.line = s.line + 1,
                                      !.mode = OamRead]
               ELSE same
          [] s.mode = VBlank ->
               IF clock >= 456
               THEN IF s.line + 1 > 153
                    THEN [same EXCEPT !.modeclock = 0, !.mode = OamRead,
                                      !.line = 0]
                    ELSE [same EXCEPT !.modeclock = 0, !.line = s.line + 1]
               ELSE same
          [] OTHER -> same

\* Gpu.step with this._line >= 153 for this._line > 153
step_vblankEndsAt153(s, cycles) ==
    LET clock == s.modeclock + cycles
        same == [mode |-> s.mode, modeclock |-> clock, line |-> s.line,
                 scan |-> 0, frame |-> 0]
    IN  CASE s.mode = OamRead ->
               IF clock >= 80
               THEN [same EXCEPT !.modeclock = 0, !.mode = VramRead]
               ELSE same
          [] s.mode = VramRead ->
               IF clock >= 172
               THEN [same EXCEPT !.modeclock = 0, !.mode = HBlank, !.scan = 1]
               ELSE same
          [] s.mode = HBlank ->
               IF clock >= 204
               THEN IF s.line + 1 = 143
                    THEN [same EXCEPT !.modeclock = 0, !.line = s.line + 1,
                                      !.mode = VBlank, !.frame = 1]
                    ELSE [same EXCEPT !.modeclock = 0, !.line = s.line + 1,
                                      !.mode = OamRead]
               ELSE same
          [] s.mode = VBlank ->
               IF clock >= 456
               THEN IF s.line + 1 >= 153
                    THEN [same EXCEPT !.modeclock = 0, !.mode = OamRead,
                                      !.line = 0]
                    ELSE [same EXCEPT !.modeclock = 0, !.line = s.line + 1]
               ELSE same
          [] OTHER -> same

\* Gpu.step without this._mode = Modes.HBlank in its VramRead branch
step_vramKeepsMode(s, cycles) ==
    LET clock == s.modeclock + cycles
        same == [mode |-> s.mode, modeclock |-> clock, line |-> s.line,
                 scan |-> 0, frame |-> 0]
    IN  CASE s.mode = OamRead ->
               IF clock >= 80
               THEN [same EXCEPT !.modeclock = 0, !.mode = VramRead]
               ELSE same
          [] s.mode = VramRead ->
               IF clock >= 172
               THEN [same EXCEPT !.modeclock = 0, !.scan = 1]
               ELSE same
          [] s.mode = HBlank ->
               IF clock >= 204
               THEN IF s.line + 1 = 143
                    THEN [same EXCEPT !.modeclock = 0, !.line = s.line + 1,
                                      !.mode = VBlank, !.frame = 1]
                    ELSE [same EXCEPT !.modeclock = 0, !.line = s.line + 1,
                                      !.mode = OamRead]
               ELSE same
          [] s.mode = VBlank ->
               IF clock >= 456
               THEN IF s.line + 1 > 153
                    THEN [same EXCEPT !.modeclock = 0, !.mode = OamRead,
                                      !.line = 0]
                    ELSE [same EXCEPT !.modeclock = 0, !.line = s.line + 1]
               ELSE same
          [] OTHER -> same

\* Gpu.step as a function: the state after step(cycles) in state s, with
\* scan = 1 when _renderScan was called and frame = 1 when VBlank was entered
step(s, cycles) ==
    LET clock == s.modeclock + cycles
        same == [mode |-> s.mode, modeclock |-> clock, line |-> s.line,
                 scan |-> 0, frame |-> 0]
    IN  CASE s.mode = OamRead ->
               IF clock >= 80
               THEN [same EXCEPT !.modeclock = 0, !.mode = VramRead]
               ELSE same
          [] s.mode = VramRead ->
               IF clock >= 172
               THEN [same EXCEPT !.modeclock = 0, !.mode = HBlank, !.scan = 1]
               ELSE same
          [] s.mode = HBlank ->
               IF clock >= 204
               THEN IF s.line + 1 = 143
                    THEN [same EXCEPT !.modeclock = 0, !.line = s.line + 1,
                                      !.mode = VBlank, !.frame = 1]
                    ELSE [same EXCEPT !.modeclock = 0, !.line = s.line + 1,
                                      !.mode = OamRead]
               ELSE same
          [] s.mode = VBlank ->
               IF clock >= 456
               THEN IF s.line + 1 > 153
                    THEN [same EXCEPT !.modeclock = 0, !.mode = OamRead,
                                      !.line = 0]
                    ELSE [same EXCEPT !.modeclock = 0, !.line = s.line + 1]
               ELSE same
          [] OTHER -> same

\* the window of the latest calls, the newest last
Remember(h, e) ==
    IF Len(h) < HistLen THEN Append(h, e) ELSE Append(Tail(h), e)

\* one call of Gpu.step; it calls _renderScan, never updateTile
Step(cycles) ==
    LET t == step(GpuState, cycles)
    IN  /\ mode' = t.mode
        /\ modeclock' = t.modeclock
        /\ line' = t.line
        /\ calls' = Remember(calls, [pre |-> GpuState, cycles |-> cycles,
                                     scan |-> t.scan, frame |-> t.frame])
        /\ UNCHANGED <<updateTileCalls, cpuVars>>

\* a constructed Gpu
GpuInit ==
    /\ mode = 0
    /\ modeclock = 0
    /\ line = 0
    /\ calls = <<>>
    /\ updateTileCalls = <<>>

\* a constructed Cpu, and a constructed Mmu
CpuReset ==
    /\ r = [a |-> 0, b |-> 0, c |-> 0, d |-> 0, e |-> 0, h |-> 0, l |-> 0,
            f |-> 0, pc |-> 0, sp |-> 0]
    /\ c = 0
    /\ memory = [x \in {} |-> 0]
    /\ image = <<0, 0>>
    /\ log = <<>>

InitGpu == GpuInit /\ CpuReset

NextGpu == \E cycles \in StepCycles : Step(cycles)

SpecGpu == InitGpu /\ [][NextGpu]_vars

\* the runs in which the calls of Gpu.step never cease
SpecGpuLive == InitGpu /\ [][NextGpu]_vars /\ WF_vars(NextGpu)

(***************************************************************************)
(* The runs of the CPU: registers, stack pointer, program counter and      *)
(* memory contents a program can have set up before the calls observed.    *)
(***************************************************************************)
\* the 8-bit register values at the start: those of a reset, and two others
RegStarts == {
    [a |-> 0, b |-> 0, c |-> 0, d |-> 0, e |-> 0, h |-> 0, l |-> 0, f |-> 0],
    [a |-> 18, b |-> 52, c |-> 86, d |-> 120, e |-> 154, h |-> 128, l |-> 0,
     f |-> 144],
    [a |-> 255, b |-> 193, c |-> 255, d |-> 1, e |-> 8, h |-> 255, l |-> 255,
     f |-> 16] }

\* stack pointers at the start: both ends of the address space and its middle
SpStarts == {0, 2, 32768, 65534, 65535}

\* program counters at the start: a reset and the end of the address space
PcStarts == {0, 65535}

\* the second byte of the memory image: operands of every sign and nibble
\* pattern, the four POP opcodes and CB-table indexes
SecondBytes == {0, 1, 15, 127, 128, 255, 193, 209, 225, 241, 48, 54}

InitCpu ==
    /\ GpuInit
    /\ \E regs \in RegStarts, sp \in SpStarts, pc \in PcStarts :
           r = regs @@ [pc |-> pc, sp |-> sp]
    /\ c = 0
    /\ memory = [x \in {} |-> 0]
    /\ image \in (0..255) \X SecondBytes
    /\ log = <<>>

NextCpu == cycle

SpecCpu == InitCpu /\ [][NextCpu]_vars

(***************************************************************************)
(* The arithmetic primitives on their own: one call of add, sub, and, or   *)
(* or xor on a register set holding any accumulator, with any operand      *)
(* byte.                                                                   *)
(***************************************************************************)
\* the primitives called
Primitives == {"add", "sub", "and", "or", "xor"}

\* the flags before the call: none set, and all four set
FlagStarts == {0, Or(Or(Z, N), Or(H, C))}

InitAlu ==
    /\ GpuInit
    /\ \E a \in 0..255, f \in FlagStarts :
           r = [a |-> a, b |-> 0, c |-> 0, d |-> 0, e |-> 0, h |-> 0, l |-> 0,
                f |-> f, pc |-> 0, sp |-> 0]
    /\ c = 0
    /\ memory = [x \in {} |-> 0]
    /\ image = <<0, 0>>
    /\ log = <<>>

\* one call fn(r, value) of a primitive
Primitive(fn, value) ==
    /\ log = <<>>
    /\ r' = Alu(fn, r, value)
    /\ log' = <<[r |-> r, fn |-> fn, value |-> value]>>
    /\ UNCHANGED <<c, memory, image, gpuVars>>

NextAlu == \E fn \in Primitives, value \in 0..255 : Primitive(fn, value)

SpecAlu == InitAlu /\ [][NextAlu]_vars

(***************************************************************************)
(* The loads and stores through HL that step HL, from every HL: the        *)
(* memory holds one of the four opcodes throughout.                        *)
(***************************************************************************)
\* LD (HL+),A  LD A,(HL+)  LD (HL-),A  LD A,(HL-)
HlOpcodes == {34, 42, 50, 58}

InitHl ==
    /\ GpuInit
    /\ \E h \in 0..255, l \in 0..255 :
           r = [a |-> 0, b |-> 0, c |-> 0, d |-> 0, e |-> 0, h |-> h, l |-> l,
                f |-> 0, pc |-> 0, sp |-> 0]
    /\ c = 0
    /\ memory = [x \in {} |-> 0]
    /\ \E opcode \in HlOpcodes : image = <<opcode, opcode>>
    /\ log = <<>>

NextHl == cycle

SpecHl == InitHl /\ [][NextHl]_vars

(***************************************************************************)
(* The memory unit on its own: one call of Mmu.ww on a new Mmu.            *)
(***************************************************************************)
\* the addresses written at: both ends of the array, a page boundary, the
\* start of the tile data, and the last address a word fits at
WordAddresses == {0, 1, 255, 32768, 65534}

InitMmu ==
    /\ GpuInit
    /\ CpuReset

\* one call of Mmu.ww(address, value)
WriteWord(address, value) ==
    /\ memory' = ww(memory, address, value)
    /\ log' = <<[address |-> address, value |-> value]>>
    /\ UNCHANGED <<r, c, image, gpuVars>>

\* the one call made on the new Mmu
NextMmu ==
    /\ log = <<>>
    /\ \E address \in WordAddresses, value \in 0..65535 :
           WriteWord(address, value)

SpecMmu == InitMmu /\ [][NextMmu]_vars

(***************************************************************************)
(* The accumulator operations with the operand in b, from every a and b    *)
(* and with the carry flag clear or set: the memory holds one of ADC A,B,  *)
(* SBC A,B and CP B throughout.                                            *)
(***************************************************************************)
\* ADC A,B  SBC A,B  CP B
AccOpcodes == {136, 152, 184}

InitAcc ==
    /\ GpuInit
    /\ \E a \in 0..255, b \in 0..255, f \in {0, C} :
           r = [a |-> a, b |-> b, c |-> 0, d |-> 0, e |-> 0, h |-> 0, l |-> 0,
                f |-> f, pc |-> 0, sp |-> 0]
    /\ c = 0
    /\ memory = [x \in {} |-> 0]
    /\ \E opcode \in AccOpcodes : image = <<opcode, opcode>>
    /\ log = <<>>

NextAcc == cycle

SpecAcc == InitAcc /\ [][NextAcc]_vars

(***************************************************************************)
(* The nibble swaps as oCbMap holds them, called on every byte: SWAP A on  *)
(* a, SWAP (HL) on the byte at address 0 (h = 0).                          *)
(***************************************************************************)
\* oCbMap[0x37] and oCbMap[0x36]
SwapOps == {"SWAP_A", "SWAP_HLM"}

InitSwap ==
    /\ GpuInit
    /\ \E x \in 0..255, f \in FlagStarts :
           /\ r = [a |-> x, b |-> 0, c |-> 0, d |-> 0, e |-> 0, h |-> 0,
                    l |-> 0, f |-> f, pc |-> 0, sp |-> 0]
           /\ image = <<x, x>>
    /\ c = 0
    /\ memory = [x \in {} |-> 0]
    /\ log = <<>>

\* one call of an operation of the table, as Cpu.cycle calls what it
\* looked up
Operation(name) ==
    /\ Len(log) < MaxSteps
    /\ LET t == o(name, [r |-> r, m |-> memory])
       IN  /\ r' = t.r
           /\ memory' = t.m
           /\ c' = c + t.cycles
           /\ log' = Append(log, [r |-> r, c |-> c, m |-> memory,
                                  name |-> name])
    /\ UNCHANGED <<image, gpuVars>>

NextSwap == \E name \in SwapOps : Operation(name)

SpecSwap == InitSwap /\ [][NextSwap]_vars

(***************************************************************************)
(* What the claims read off the state.                                     *)
(***************************************************************************)
\* the cycles, scanline renders and VBlank entries of the remembered calls
\* from the k-th on
RECURSIVE CyclesFrom(_)
CyclesFrom(k) == IF k > Len(calls) THEN 0 ELSE calls[k].cycles + CyclesFrom(k + 1)
RECURSIVE ScansFrom(_)
ScansFrom(k) == IF k > Len(calls) THEN 0 ELSE calls[k].scan + ScansFrom(k + 1)
RECURSIVE FramesFrom(_)
FramesFrom(k) == IF k > Len(calls) THEN 0 ELSE calls[k].frame + FramesFrom(k + 1)

\* the start of a frame
FrameStart == [mode |-> OamRead, modeclock |-> 0, line |-> 0]

\* the length of each mode
Threshold(md) ==
    CASE md = OamRead -> 80
      [] md = VramRead -> 172
      [] md = HBlank -> 204
      [] md = VBlank -> 456

\* the latest Cpu.cycle call, and the one before it
Last == log[Len(log)]
Before == log[Len(log) - 1]

\* the number a string of hexadecimal digits denotes
RECURSIVE FromHex(_)
FromHex(digits) ==
    IF digits = <<>>
    THEN 0
    ELSE 16 * FromHex(SubSeq(digits, 1, Len(digits) - 1)) + digits[Len(digits)]

\* oCbMap[index]
CbLookup(index) ==
    IF index = NaN \/ index + 1 > Len(oCbMap)
    THEN "undefined"
    ELSE oCbMap[index + 1]

\* the register pairs with their PUSH and POP operations
Pairs == {
    [hi |-> "a", lo |-> "f", push |-> "PUSH_AF", pop |-> "POP_AF"],
    [hi |-> "b", lo |-> "c", push |-> "PUSH_BC", pop |-> "POP_BC"],
    [hi |-> "d", lo |-> "e", push |-> "PUSH_DE", pop |-> "POP_DE"],
    [hi |-> "h", lo |-> "l", push |-> "PUSH_HL", pop |-> "POP_HL"] }

Regs8 == {"a", "b", "c", "d", "e", "h", "l", "f"}

(***************************************************************************)
(* The claims.                                                             *)
(***************************************************************************)

\* C1: from {OamScan, modeClock 0, line 0}, calls of Gpu.step whose cycle
\* arguments sum to exactly 70224 end in {OamScan, 0, 0} again and enter
\* VBlank (frame complete) exactly once.  Stated of the remembered calls.
C1_FrameRoundTrip ==
    \A k \in 1..Len(calls) :
        (calls[k].pre = FrameStart /\ CyclesFrom(k) = 70224)
            => (GpuState = FrameStart /\ FramesFrom(k) = 1)

\* C2: a sequence of Gpu.step calls reaches the state, and fires the events,
\* that the single call with the sum of their cycles reaches from the same
\* state.  Stated of the remembered calls.
C2_SplitEqualsSingle ==
    \A k \in 1..Len(calls) :
        LET t == step(calls[k].pre, CyclesFrom(k))
        IN  /\ mode = t.mode
            /\ modeclock = t.modeclock
            /\ line = t.line
            /\ ScansFrom(k) = t.scan
            /\ FramesFrom(k) = t.frame

\* C3: a Gpu.step call that crosses the threshold T of the current mode (and
\* no further one: the remainder is below every mode's length) leaves
\* modeclock = modeclock before + cycles - T.
C3_RemainderCarried ==
    calls # <<>> =>
        LET e == calls[Len(calls)]
            total == e.pre.modeclock + e.cycles
            T == Threshold(e.pre.mode)
        IN  (total >= T /\ total - T < 80) => modeclock = total - T

\* C4: PUSH of a register pair followed by POP of the same pair, from a
\* stack pointer in 0x0002..0xFFFE, restores both bytes of the pair and the
\* stack pointer.
C4_PushPopRoundTrip ==
    Len(log) >= 2 =>
        \A p \in Pairs :
            ( /\ Lookup(Before.opcode) = p.push
              /\ Lookup(Last.opcode) = p.pop
              /\ Before.r.sp \in 2..65534
              /\ Before.r[p.hi] \in 0..255
              /\ Before.r[p.lo] \in 0..255 )
            => ( /\ r[p.hi] = Before.r[p.hi]
                 /\ r[p.lo] = Before.r[p.lo]
                 /\ r.sp = Before.r.sp )

\* C4, reached: B = 0x34 and C = 0x56 pushed from sp = 0xFFFE and popped
C4_Witness ==
    /\ Len(log) = 2
    /\ Lookup(Before.opcode) = "PUSH_BC"
    /\ Lookup(Last.opcode) = "POP_BC"
    /\ Before.r.sp = 65534
    /\ Before.r.b = 52
    /\ Before.r.c = 86
    /\ Last.r.sp = 65532
    /\ r.b = 52
    /\ r.c = 86
    /\ r.sp = 65534

\* C5: a Cpu.cycle call that fetches an opcode with no operation in oMap
\* throws an error that holds that opcode, and leaves every register
\* (pc, sp and f among them) and the cycle counter as they were.
C5_UnpopulatedLeavesState ==
    log # <<>> =>
        ( (Last.opcode # NaN /\ Lookup(Last.opcode) = "undefined")
          => ( /\ Last.threw
               /\ FromHex(Last.error) = Last.opcode
               /\ r = Last.r
               /\ c = Last.c ) )

\* C6: a Cpu.cycle call that fetches 0xCB, the next byte naming an operation
\* of oCbMap, runs that operation, adds its cost to the cycle counter and
\* leaves pc two above its value before the call.
C6_CbPrefixDispatch ==
    log # <<>> =>
        LET index == rb(Last.m, Last.r.pc + 1)
        IN  (Last.opcode = 203 /\ CbLookup(index) # "undefined")
            => LET t == o(CbLookup(index),
                          [r |-> [Last.r EXCEPT !.pc = @ + 2], m |-> Last.m])
               IN  /\ ~ Last.threw
                   /\ r = t.r
                   /\ r.pc = Last.r.pc + 2
                   /\ memory = t.m
                   /\ c = Last.c + t.cycles

\* C7: 0 <= line <= 153; in OamScan, VramScan and HBlank line < 144; in
\* VBlank 144 <= line <= 153.
C7_LineRange ==
    /\ line \in 0..153
    /\ mode \in {OamRead, VramRead, HBlank} => line < 144
    /\ mode = VBlank => line \in 144..153

\* C8: the low nibble of the flags register f is 0 in every state.
C8_FlagsLowNibbleZero == And(r.f, 15) = 0

\* C9: each of a, b, c, d, e, h, l, f holds a value in 0..255, unless it
\* holds the `undefined` (NaN here) that only a memory read outside the
\* array gives.
C9_RegistersAreBytes == \A k \in Regs8 : r[k] \in 0..255 \/ r[k] = NaN

\* C9, reached: ADD A,A with a = 255, which sums to 510, has left a = 254
C9_Witness ==
    /\ log # <<>>
    /\ Lookup(Last.opcode) = "ADD_A"
    /\ Last.r.a = 255
    /\ r.a = 254
    /\ And(r.f, C) = C

\* C10: pc and sp are in 0..65535 in every state (a fetch at 0xFFFF wraps pc
\* to 0, PUSH, POP and ADD SP,n wrap sp modulo 65536).
C10_PcSpWrap == r.pc \in 0..65535 /\ r.sp \in 0..65535

\* C11: from {OamScan, modeClock 0, line 0}, Gpu.step(80) gives
\* {VramScan, 0, 0}, and a single Gpu.step(456) gives {OamScan, 0, line 1}
\* having rendered exactly one scanline.
C11_OamScanAdvance ==
    calls # <<>> =>
        LET e == calls[Len(calls)]
        IN  e.pre = FrameStart =>
              /\ e.cycles = 80 =>
                   GpuState = [mode |-> VramRead, modeclock |-> 0, line |-> 0]
              /\ e.cycles = 456 =>
                   /\ GpuState = [mode |-> OamRead, modeclock |-> 0, line |-> 1]
                   /\ e.scan = 1

\* C12: a constructed Gpu, before any Gpu.step call, is in
\* {mode OamScan, modeClock 0, line 0}.
C12_ConstructedState == calls = <<>> => GpuState = FrameStart

\* C13: VBlank is entered (frame complete) exactly by the Gpu.step call that
\* leaves HBlank with the incremented line equal to 144, and a scanline is
\* rendered only for the lines 0..143.
C13_VBlankAtLine144 ==
    calls # <<>> =>
        LET e == calls[Len(calls)]
        IN  /\ e.frame = 1 => (e.pre.mode = HBlank /\ line = 144)
            /\ (e.pre.mode = HBlank /\ mode # HBlank /\ line = 144)
                   => e.frame = 1
            /\ e.scan = 1 => e.pre.line \in 0..143

\* the bits of a byte, the lowest first
Bits(n) == [i \in 0..7 |-> (n \div Pow2(i)) % 2 = 1]

\* whether the flag fl (one bit) is set in f
Flag(f, fl) == (f \div fl) % 2 = 1

\* C14: add leaves a = (a + v) mod 256, Z set iff that is 0, N clear and C
\* set iff a + v > 255, whatever the flags were before.
C14_AddResultAndFlags ==
    (log # <<>> /\ Last.fn = "add") =>
        LET sum == Last.r.a + Last.value
        IN  /\ r.a = sum % 256
            /\ Flag(r.f, Z) <=> sum % 256 = 0
            /\ ~ Flag(r.f, N)
            /\ Flag(r.f, C) <=> sum > 255

\* C14, reached: add(0xFF, 0x01) with every flag set before gives 0 with Z
\* and C and without N
C14_Witness ==
    /\ log # <<>>
    /\ Last.fn = "add"
    /\ Last.r.a = 255
    /\ Last.value = 1
    /\ Flag(Last.r.f, N)
    /\ r.a = 0
    /\ r.f = Z + C

\* C15: sub leaves a = (a - v) mod 256, Z set iff that is 0, N set and C
\* set iff a < v.
C15_SubResultAndFlags ==
    (log # <<>> /\ Last.fn = "sub") =>
        LET diff == Last.r.a - Last.value
        IN  /\ r.a = diff % 256
            /\ Flag(r.f, Z) <=> diff % 256 = 0
            /\ Flag(r.f, N)
            /\ Flag(r.f, C) <=> Last.r.a < Last.value

\* C15, reached: sub(0x00, 0x01) gives 0xFF with N and C set and Z clear
C15_Witness ==
    /\ log # <<>>
    /\ Last.fn = "sub"
    /\ Last.r.a = 0
    /\ Last.value = 1
    /\ r.a = 255
    /\ r.f = N + C

\* C16: and, or and xor leave in a the bitwise and, or and exclusive or of
\* a and v, Z set iff that is 0, N and C clear, H set after and and clear
\* after or and xor.
C16_LogicResultAndFlags ==
    (log # <<>> /\ Last.fn \in {"and", "or", "xor"}) =>
        /\ r.a \in 0..255
        /\ LET a == Bits(Last.r.a)
               v == Bits(Last.value)
           IN  Bits(r.a) =
                   CASE Last.fn = "and" -> [i \in 0..7 |-> a[i] /\ v[i]]
                     [] Last.fn = "or" -> [i \in 0..7 |-> a[i] \/ v[i]]
                     [] Last.fn = "xor" -> [i \in 0..7 |-> a[i] # v[i]]
        /\ Flag(r.f, Z) <=> r.a = 0
        /\ ~ Flag(r.f, N)
        /\ ~ Flag(r.f, C)
        /\ Flag(r.f, H) <=> Last.fn = "and"

\* C16, reached: and(0xF0, 0x0F) with every flag set before gives 0 with Z
\* and H only
C16_Witness ==
    /\ log # <<>>
    /\ Last.fn = "and"
    /\ Last.r.a = 240
    /\ Last.value = 15
    /\ Flag(Last.r.f, C)
    /\ r.a = 0
    /\ r.f = Z + H

\* the 16-bit value of the pair h, l of a register set
HL(rs) == 256 * rs.h + rs.l

\* C17: LD A,(HL+) and LD (HL+),A leave HL one above, LD A,(HL-) and
\* LD (HL-),A one below, its value before, modulo 65536.
C17_HlStepsAsOneWord ==
    log # <<>> =>
        /\ Lookup(Last.opcode) \in {"LD_A_HLI", "LD_HLI_A"}
               => HL(r) = (HL(Last.r) + 1) % 65536
        /\ Lookup(Last.opcode) \in {"LD_A_HLD", "LD_HLD_A"}
               => HL(r) = (HL(Last.r) - 1) % 65536

\* C17, reached: LD A,(HL+) from HL = 0x00FF has left HL = 0x0100
C17_Witness ==
    /\ log # <<>>
    /\ Lookup(Last.opcode) = "LD_A_HLI"
    /\ Last.r.h = 0
    /\ Last.r.l = 255
    /\ r.h = 1
    /\ r.l = 0

\* C18: a Cpu.cycle call that does not throw returns to its caller the
\* cost of the operation it ran.
C18_CycleReturnsCost ==
    (log # <<>> /\ ~ Last.threw) =>
        Last.returned =
            o(Lookup(Last.opcode),
              [r |-> [Last.r EXCEPT !.pc = @ + 1], m |-> Last.m]).cycles

\* the tile data addresses, 0x8000..0x9FFF
TileData == 32768..40959

\* C20: for every byte the latest Cpu.cycle call wrote at a tile data
\* address, Gpu.updateTile has been called with that address and value.
C20_TileWriteHook ==
    log # <<>> =>
        \A address \in (DOMAIN memory) \cap TileData :
            (address \notin DOMAIN Last.m \/ Last.m[address] # memory[address])
                => \E i \in 1..Len(updateTileCalls) :
                       updateTileCalls[i] = <<address, memory[address]>>

\* C21: Mmu.ww(address, value) stores the low byte of value at address and
\* the high byte at address + 1, and Mmu.rw(address) then returns value.
C21_WordRoundTrip ==
    log # <<>> =>
        /\ rb(memory, Last.address) = Last.value % 256
        /\ rb(memory, Last.address + 1) = Last.value \div 256
        /\ rw(memory, Last.address) = Last.value

\* C22: after every Gpu.step call modeclock is below the length of the mode
\* the Gpu is then in.
C22_ClockBelowThreshold == calls # <<>> => modeclock < Threshold(mode)

\* C22, reached: two calls of 80 cycles in VramScan have left modeclock at
\* 160, below 172, with no transition
C22_Witness ==
    /\ Len(calls) = 2
    /\ calls[1].pre.mode = VramRead
    /\ calls[1].pre.modeclock = 0
    /\ calls[1].cycles = 80
    /\ calls[2].cycles = 80
    /\ mode = VramRead
    /\ modeclock = 160

\* C23: a Gpu.step call in VBlank that reaches 456 cycles adds 1 to line
\* and stays in VBlank, unless that makes line exceed 153: then the mode is
\* OamScan and line is 0.  A call that does not reach 456 changes neither.
C23_VBlankLines ==
    calls # <<>> =>
        LET e == calls[Len(calls)]
        IN  e.pre.mode = VBlank =>
              IF e.pre.modeclock + e.cycles >= 456
              THEN IF e.pre.line + 1 > 153
                   THEN mode = OamRead /\ line = 0
                   ELSE mode = VBlank /\ line = e.pre.line + 1
              ELSE mode = VBlank /\ line = e.pre.line

\* C23, reached: line 152 of VBlank went to line 153, and line 153 to line
\* 0 of OamScan
C23_Witness ==
    /\ Len(calls) = 2
    /\ calls[1].pre.mode = VBlank
    /\ calls[1].pre.line = 152
    /\ calls[2].pre.mode = VBlank
    /\ calls[2].pre.line = 153
    /\ mode = OamRead
    /\ line = 0

\* C24: after add the H flag is set iff (a & 0xF) + (v & 0xF) > 0xF, after
\* sub iff (a & 0xF) < (v & 0xF).
C24_HalfCarry ==
    log # <<>> =>
        /\ Last.fn = "add" =>
               (Flag(r.f, H) <=> (Last.r.a % 16) + (Last.value % 16) > 15)
        /\ Last.fn = "sub" =>
               (Flag(r.f, H) <=> (Last.r.a % 16) < (Last.value % 16))

\* the carry flag of a register set, as a number
CarryIn(rs) == IF Flag(rs.f, C) THEN 1 ELSE 0

\* C25: ADC leaves a = (a + v + c) mod 256 with Z iff that is 0, N clear
\* and C iff a + v + c > 255; SBC leaves a = (a - v - c) mod 256 with Z iff
\* that is 0, N set and C iff a < v + c; c is the carry flag before.
C25_WithCarry ==
    log # <<>> =>
        LET a == Last.r.a
            v == Last.r.b
            cin == CarryIn(Last.r)
        IN  /\ Lookup(Last.opcode) = "ADC_B" =>
                 /\ r.a = (a + v + cin) % 256
                 /\ Flag(r.f, Z) <=> (a + v + cin) % 256 = 0
                 /\ ~ Flag(r.f, N)
                 /\ Flag(r.f, C) <=> a + v + cin > 255
            /\ Lookup(Last.opcode) = "SBC_B" =>
                 /\ r.a = (a - v - cin) % 256
                 /\ Flag(r.f, Z) <=> (a - v - cin) % 256 = 0
                 /\ Flag(r.f, N)
                 /\ Flag(r.f, C) <=> a < v + cin

\* C25, reached: ADC A,B with a = 0, b = 255 and the carry set has left
\* a = 0 with Z and C
C25_Witness ==
    /\ log # <<>>
    /\ Lookup(Last.opcode) = "ADC_B"
    /\ Last.r.a = 0
    /\ Last.r.b = 255
    /\ CarryIn(Last.r) = 1
    /\ r.a = 0
    /\ r.f = Z + C

\* C26: CP leaves every register but f as it was, and f with Z iff a = v,
\* N set and C iff a < v.
C26_CompareOnlyFlags ==
    (log # <<>> /\ Lookup(Last.opcode) = "CP_B") =>
        /\ [r EXCEPT !.f = 0, !.pc = 0] = [Last.r EXCEPT !.f = 0, !.pc = 0]
        /\ Flag(r.f, Z) <=> Last.r.a = Last.r.b
        /\ Flag(r.f, N)
        /\ Flag(r.f, C) <=> Last.r.a < Last.r.b

\* C26, reached: CP B with a = 0x10 below b = 0x20 has left a = 0x10 and
\* f = N | C
C26_Witness ==
    /\ log # <<>>
    /\ Lookup(Last.opcode) = "CP_B"
    /\ Last.r.a = 16
    /\ Last.r.b = 32
    /\ r.a = 16
    /\ r.f = N + C

\* C27: INC r and DEC r change the register, INC (HL) and DEC (HL) the
\* byte at HL, by +1 or -1 modulo 256, set Z iff the result is 0, leave C
\* as it was, clear N on increment and set it on decrement.  Read off
\* INC B and DEC B.
C27_IncDecFlags ==
    log # <<>> =>
        /\ Lookup(Last.opcode) = "INC_B" =>
               /\ r.b = (Last.r.b + 1) % 256
               /\ Flag(r.f, Z) <=> r.b = 0
               /\ Flag(r.f, C) <=> Flag(Last.r.f, C)
               /\ ~ Flag(r.f, N)
        /\ Lookup(Last.opcode) = "DEC_B" =>
               /\ r.b = (Last.r.b - 1) % 256
               /\ Flag(r.f, Z) <=> r.b = 0
               /\ Flag(r.f, C) <=> Flag(Last.r.f, C)
               /\ Flag(r.f, N)

\* C28: ADD HL,BC / DE / HL / SP leave HL = (HL + operand) mod 65536, Z as
\* it was, N clear and C set iff HL + operand > 65535.  Read off ADD HL,BC.
C28_AddHl ==
    (log # <<>> /\ Lookup(Last.opcode) = "ADD_HL_BC") =>
        LET sum == HL(Last.r) + 256 * Last.r.b + Last.r.c
        IN  /\ HL(r) = sum % 65536
            /\ Flag(r.f, Z) <=> Flag(Last.r.f, Z)
            /\ ~ Flag(r.f, N)
            /\ Flag(r.f, C) <=> sum > 65535

\* the byte an operation of SwapOps works on, in registers rs and memory m
SwapTarget(name, rs, m) == IF name = "SWAP_A" THEN rs.a ELSE rb(m, 0)

\* C29: a nibble swap of the byte x leaves (x & 0x0F) * 16 + (x >> 4), Z
\* set iff that is 0 and N, H, C clear; two swaps of the same byte leave x.
C29_SwapNibbles ==
    log # <<>> =>
        LET x == SwapTarget(Last.name, Last.r, Last.m)
            y == SwapTarget(Last.name, r, memory)
        IN  /\ y = (x % 16) * 16 + (x \div 16)
            /\ Flag(r.f, Z) <=> y = 0
            /\ ~ Flag(r.f, N) /\ ~ Flag(r.f, H) /\ ~ Flag(r.f, C)
            /\ (Len(log) >= 2 /\ Before.name = Last.name) =>
                   y = SwapTarget(Last.name, Before.r, Before.m)

\* C29, reached: SWAP A twice from a = 0xA5 with every flag set: 0x5A,
\* then 0xA5 again, no flag left
C29_Witness ==
    /\ Len(log) >= 2
    /\ Before.name = "SWAP_A"
    /\ Last.name = "SWAP_A"
    /\ Before.r.a = 165
    /\ Flag(Before.r.f, C)
    /\ Last.r.a = 90
    /\ r.a = 165
    /\ r.f = 0

\* the loads of a from, and stores of a to, the byte a register pair
\* addresses
PairOps == {
    [name |-> "LD_A_BC", hi |-> "b", lo |-> "c", store |-> FALSE],
    [name |-> "LD_A_DE", hi |-> "d", lo |-> "e", store |-> FALSE],
    [name |-> "LD_A_HL", hi |-> "h", lo |-> "l", store |-> FALSE],
    [name |-> "LD_BC_A", hi |-> "b", lo |-> "c", store |-> TRUE],
    [name |-> "LD_DE_A", hi |-> "d", lo |-> "e", store |-> TRUE],
    [name |-> "LD_HL_A", hi |-> "h", lo |-> "l", store |-> TRUE] }

\* C30: an operation that loads or stores through a register pair reads or
\* writes the byte at address high * 256 + low of the pair.  Read off
\* LD A,(BC) / (DE) / (HL) and LD (BC) / (DE) / (HL),A.
C30_PairAddress ==
    log # <<>> =>
        \A p \in PairOps :
            Lookup(Last.opcode) = p.name =>
                LET address == 256 * Last.r[p.hi] + Last.r[p.lo]
                IN  IF p.store
                    THEN memory = wb(Last.m, address, Last.r.a)
                    ELSE r.a = rb(Last.m, address)

\* C34: when the calls of Gpu.step never cease, the Gpu is in VBlank again
\* and again, and at line 0 of OamScan again and again: it stays in no
\* mode for ever.
C34_NeverStuck ==
    /\ []<>(mode = VBlank)
    /\ []<>(mode = OamRead /\ line = 0)

\* C34, reached: the call that ended VBlank's last line has left the Gpu
\* at line 0 of OamScan
C34_Witness ==
    /\ calls # <<>>
    /\ calls[Len(calls)].pre.mode = VBlank
    /\ calls[Len(calls)].pre.line = 153
    /\ mode = OamRead
    /\ line = 0

\* the register pairs with their 16-bit increment and decrement operations
PairSteps == {
    [hi |-> "b", lo |-> "c", inc |-> "INC_BC", dec |-> "DEC_BC"],
    [hi |-> "d", lo |-> "e", inc |-> "INC_DE", dec |-> "DEC_DE"],
    [hi |-> "h", lo |-> "l", inc |-> "INC_HL", dec |-> "DEC_HL"] }

\* C31: INC BC / DE / HL leave the pair value high * 256 + low one above,
\* DEC BC / DE / HL one below, its value before, modulo 65536.
C31_PairIncDec ==
    log # <<>> =>
        \A p \in PairSteps :
            LET before == 256 * Last.r[p.hi] + Last.r[p.lo]
                after == 256 * r[p.hi] + r[p.lo]
            IN  /\ Lookup(Last.opcode) = p.inc => after = (before + 1) % 65536
                /\ Lookup(Last.opcode) = p.dec => after = (before - 1) % 65536

\* C32: INC and DEC of BC, DE, HL and SP leave f as it was.
C32_PairIncDecKeepFlags ==
    (log # <<>> /\ Lookup(Last.opcode) \in
                     {"INC_BC", "INC_DE", "INC_HL", "INC_SP",
                      "DEC_BC", "DEC_DE", "DEC_HL", "DEC_SP"})
        => r.f = Last.r.f

\* C33: LD SP,HL (opcode 0xF9) leaves sp = h * 256 + l and every other
\* register (but pc, which the fetch advances) and the memory as they were.
C33_LoadSpFromHl ==
    (log # <<>> /\ Last.opcode = 249) =>
        /\ ~ Last.threw
        /\ r.sp = HL(Last.r)
        /\ [r EXCEPT !.sp = 0, !.pc = 0] = [Last.r EXCEPT !.sp = 0, !.pc = 0]
        /\ memory = Last.m

\* C35: opcode 0x34 adds 1 to the byte HL addresses and leaves h and l,
\* opcode 0x23 adds 1 to the pair HL and writes no memory, opcode 0x77
\* stores a at the address in HL.
C35_OpcodePlacement ==
    log # <<>> =>
        LET address == HL(Last.r)
        IN  /\ Last.opcode = 52 =>
                 /\ ~ Last.threw
                 /\ r.h = Last.r.h /\ r.l = Last.r.l
                 /\ memory = wb(Last.m, address,
                                (rb(Last.m, address) + 1) % 256)
            /\ Last.opcode = 35 =>
                 /\ ~ Last.threw
                 /\ HL(r) = (address + 1) % 65536
                 /\ memory = Last.m
            /\ Last.opcode = 119 =>
                 /\ ~ Last.threw
                 /\ memory = wb(Last.m, address, Last.r.a)

====
